---- MODULE Spec2Model ----
(***************************************************************************)
(* CopilotKit CrewAI agent (sdk-python/copilotkit/crewai_agent.py):        *)
(* the flow run driver (CrewAIAgent.execute_flow), the event mapper        *)
(* (handle_crewai_flow_event) and the state predictor (predict_state).     *)
(*                                                                         *)
(* Text is a sequence of one-character strings, so that concatenating      *)
(* argument fragments and parsing the buffer are computed, not assumed.    *)
(* A JSON value is a record [kind, str, obj, arr]; a Python dict is a      *)
(* function from its keys to JSON values.                                  *)
(***************************************************************************)
EXTENDS Integers, Sequences, FiniteSets, TLC

(***************************************************************************)
(* Bounds of the model.                                                    *)
(***************************************************************************)
\* events the worker thread enqueues in one run
MaxEvents == 3
\* worker writes to flow.state in one run
MaxWrites == 1
\* argument fragments accumulated for one tool call
MaxFrags == 3
\* characters accumulated in argument_buffer
MaxBuffer == 18

(***************************************************************************)
(* JSON values.                                                            *)
(***************************************************************************)
NoFields == [k \in {} |-> <<>>]

JStr(s) == [kind |-> "str", str |-> s, obj |-> NoFields, arr |-> <<>>]

JNum(s) == [kind |-> "num", str |-> s, obj |-> NoFields, arr |-> <<>>]

JObj(f) == [kind |-> "obj", str |-> <<>>, obj |-> f, arr |-> <<>>]

JArr(a) == [kind |-> "arr", str |-> <<>>, obj |-> NoFields, arr |-> a]

\* Python's None where a JSON value is expected
JNone == [kind |-> "none", str |-> <<>>, obj |-> NoFields, arr |-> <<>>]

\* d with key k bound to v: d[k] = v on a dict
DictSet(d, k, v) == [x \in DOMAIN d \cup {k} |-> IF x = k THEN v ELSE d[x]]

\* a merge that would drop the second dict
DictKeepFirst(a, b) == a

\* {**a, **b}
DictMerge(a, b) == [x \in DOMAIN a \cup DOMAIN b |-> IF x \in DOMAIN b THEN b[x] ELSE a[x]]

(***************************************************************************)
(* The tolerant parser, PartialJSONParser().parse.  The model's JSON       *)
(* subset: an object whose member values are strings, an array of strings, *)
(* a string; blanks between tokens.  A text that stops early gives the     *)
(* members that are complete; a wrong token is a parse failure, which the  *)
(* caller catches.                                                         *)
(***************************************************************************)
RECURSIVE SkipWs(_, _)
SkipWs(s, i) == IF i <= Len(s) /\ s[i] = " " THEN SkipWs(s, i + 1) ELSE i

\* index of the first quote at or after j, 0 when there is none
RECURSIVE FindQuote(_, _)
FindQuote(s, j) ==
    IF j > Len(s) THEN 0
    ELSE IF s[j] = "\"" THEN j
    ELSE FindQuote(s, j + 1)

\* the string literal opening at s[i]
ScanString(s, i) ==
    LET q == FindQuote(s, i + 1)
    IN  IF q = 0 THEN [done |-> FALSE, str |-> <<>>, next |-> Len(s) + 1]
        ELSE [done |-> TRUE, str |-> SubSeq(s, i + 1, q - 1), next |-> q + 1]

ParseFail == [ok |-> FALSE, val |-> JNone]

\* nothing but blanks may follow a closed value
ParseClosed(s, next, v) ==
    IF SkipWs(s, next) > Len(s) THEN [ok |-> TRUE, val |-> v] ELSE ParseFail

\* members of an object from index i0 on, acc the members complete so far
RECURSIVE ParseMembers(_, _, _)
ParseMembers(s, i0, acc) ==
    LET i == SkipWs(s, i0)
    IN  IF i > Len(s) THEN [ok |-> TRUE, val |-> JObj(acc)]
        ELSE IF s[i] = "}" THEN ParseClosed(s, i + 1, JObj(acc))
        ELSE IF s[i] # "\"" THEN ParseFail
        ELSE
          LET key == ScanString(s, i)
              j   == SkipWs(s, key.next)
          IN  IF ~key.done \/ j > Len(s) THEN [ok |-> TRUE, val |-> JObj(acc)]
              ELSE IF s[j] # ":" THEN ParseFail
              ELSE
                LET k == SkipWs(s, j + 1)
                IN  IF k > Len(s) THEN [ok |-> TRUE, val |-> JObj(acc)]
                    ELSE IF s[k] # "\"" THEN ParseFail
                    ELSE
                      LET val  == ScanString(s, k)
                          acc2 == DictSet(acc, key.str, JStr(val.str))
                          m    == SkipWs(s, val.next)
                      IN  IF ~val.done THEN [ok |-> TRUE, val |-> JObj(acc)]
                          ELSE IF m > Len(s) THEN [ok |-> TRUE, val |-> JObj(acc2)]
                          ELSE IF s[m] = "," THEN ParseMembers(s, m + 1, acc2)
                          ELSE IF s[m] = "}" THEN ParseClosed(s, m + 1, JObj(acc2))
                          ELSE ParseFail

\* items of an array of strings from index i0 on
RECURSIVE ParseItems(_, _, _)
ParseItems(s, i0, acc) ==
    LET i == SkipWs(s, i0)
    IN  IF i > Len(s) THEN [ok |-> TRUE, val |-> JArr(acc)]
        ELSE IF s[i] = "]" THEN ParseClosed(s, i + 1, JArr(acc))
        ELSE IF s[i] # "\"" THEN ParseFail
        ELSE
          LET item == ScanString(s, i)
              m    == SkipWs(s, item.next)
          IN  IF ~item.done THEN [ok |-> TRUE, val |-> JArr(acc)]
              ELSE IF m > Len(s) THEN [ok |-> TRUE, val |-> JArr(Append(acc, item.str))]
              ELSE IF s[m] = "," THEN ParseItems(s, m + 1, Append(acc, item.str))
              ELSE IF s[m] = "]" THEN ParseClosed(s, m + 1, JArr(Append(acc, item.str)))
              ELSE ParseFail

PartialJSONParse(s) ==
    LET i == SkipWs(s, 1)
    IN  IF i > Len(s) THEN [ok |-> TRUE, val |-> JObj(NoFields)]
        ELSE IF s[i] = "{" THEN ParseMembers(s, i + 1, NoFields)
        ELSE IF s[i] = "[" THEN ParseItems(s, i + 1, <<>>)
        ELSE IF s[i] = "\"" THEN
          LET str == ScanString(s, i)
          IN  IF str.done THEN ParseClosed(s, str.next, JStr(str.str)) ELSE ParseFail
        ELSE ParseFail

\* json.loads accepts s: s is one complete JSON text of the subset
RECURSIVE MembersClosed(_, _)
MembersClosed(s, i0) ==
    LET i == SkipWs(s, i0)
    IN  IF i > Len(s) \/ s[i] # "\"" THEN FALSE
        ELSE
          LET key == ScanString(s, i)
              j   == SkipWs(s, key.next)
              k   == SkipWs(s, j + 1)
          IN  /\ key.done /\ j <= Len(s) /\ s[j] = ":"
              /\ k <= Len(s) /\ s[k] = "\""
              /\ LET val == ScanString(s, k)
                     m   == SkipWs(s, val.next)
                 IN  /\ val.done /\ m <= Len(s)
                     /\ \/ s[m] = "}" /\ SkipWs(s, m + 1) > Len(s)
                        \/ s[m] = "," /\ MembersClosed(s, m + 1)

IsCompleteObject(s) ==
    LET i == SkipWs(s, 1)
        j == SkipWs(s, i + 1)
    IN  /\ i <= Len(s) /\ s[i] = "{"
        /\ \/ j <= Len(s) /\ s[j] = "}" /\ SkipWs(s, j + 1) > Len(s)
           \/ MembersClosed(s, i + 1)

(***************************************************************************)
(* Protocol events, as the constructors of copilotkit.protocol are called. *)
(* thread_id, agent_name, run_id and role are the same in every event of a *)
(* run and are left out.                                                   *)
(***************************************************************************)
None == "None"

text_message_start(message_id, parent_message_id) ==
    [type |-> "TextMessageStart", messageId |-> message_id,
     parentMessageId |-> parent_message_id]

text_message_content(message_id, content) ==
    [type |-> "TextMessageContent", messageId |-> message_id, content |-> content]

text_message_end(message_id) ==
    [type |-> "TextMessageEnd", messageId |-> message_id]

action_execution_start(action_execution_id, action_name, parent_message_id) ==
    [type |-> "ActionExecutionStart", actionExecutionId |-> action_execution_id,
     actionName |-> action_name, parentMessageId |-> parent_message_id]

action_execution_args(action_execution_id, args) ==
    [type |-> "ActionExecutionArgs", actionExecutionId |-> action_execution_id,
     args |-> args]

action_execution_end(action_execution_id) ==
    [type |-> "ActionExecutionEnd", actionExecutionId |-> action_execution_id]

agent_state_message(node_name, active, state, running) ==
    [type |-> "AgentStateMessage", nodeName |-> node_name, active |-> active,
     state |-> state, running |-> running]

\* the batch of one emission call: its events, in the order given
emit_runtime_events(events) == events

\* json.dumps of a dict
json_dumps(d) == [json |-> d]

\* predict_state returning None
NoMessage == [type |-> None]

(***************************************************************************)
(* Internal events.  One record shape for every type; a field the type     *)
(* does not carry holds its default.                                       *)
(*   id: message_id / action_execution_id   name: name / action_name       *)
(*   text: message / content / args fragment   dict: state / args dict     *)
(*   config: the predict-state configuration, a sequence of entries        *)
(*           [key, tool_name, tool_argument] in the dict's order           *)
(***************************************************************************)
NoDict == [k \in {} |-> JNone]

Event(type, id, name, text, dict, config) ==
    [type |-> type, id |-> id, name |-> name, text |-> text, dict |-> dict,
     config |-> config, parent |-> None]

\* tool_argument absent from a configuration entry
NoArgument == <<>>

(***************************************************************************)
(* filter_state                                                            *)
(***************************************************************************)
filter_state(state, exclude_keys) ==
    LET ex == IF exclude_keys = {} THEN {"messages", "id"} ELSE exclude_keys
    IN  [k \in DOMAIN state \ ex |-> state[k]]

(***************************************************************************)
(* predict_state                                                           *)
(***************************************************************************)
\* dict.get on the parsed arguments; None for an absent key
DictGet(d, k) == IF k \in DOMAIN d THEN d[k] ELSE JNone

\* the whole parsed document in place of the named field
ArgumentValueWhole(current_arguments, tool_argument) == current_arguments

\* current_arguments.get(tool_argument)
ArgumentValue(current_arguments, tool_argument) ==
    DictGet(current_arguments.obj, tool_argument)

\* the loop over predict_state_configuration.items(), from entry i on
RECURSIVE PredictLoop(_, _, _, _, _)
PredictLoop(config, i, tool, current_arguments, acc) ==
    IF i > Len(config) THEN acc
    ELSE
      LET v == config[i]
      IN  IF v.tool_name # tool
            THEN PredictLoop(config, i + 1, tool, current_arguments, acc)
          ELSE IF v.tool_argument # NoArgument
            THEN IF current_arguments.kind # "obj"
                   THEN [acc EXCEPT !.raised = "AttributeError"]
                 ELSE
                   LET argument_value == ArgumentValue(current_arguments, v.tool_argument)
                   IN  IF argument_value # JNone
                         THEN PredictLoop(config, i + 1, tool, current_arguments,
                                [acc EXCEPT !.predicted_state =
                                              DictSet(@, v.key, argument_value),
                                            !.emit_update = TRUE])
                       ELSE PredictLoop(config, i + 1, tool, current_arguments, acc)
          ELSE PredictLoop(config, i + 1, tool, current_arguments,
                 [acc EXCEPT !.predicted_state = DictSet(@, v.key, current_arguments),
                             !.emit_update = TRUE])

\* the buffer replaced by the fragment
BufferReplaced(argument_buffer, args) == args

\* execution_state["argument_buffer"] += event_data["args"]
BufferAppend(argument_buffer, args) == argument_buffer \o args

\* a start that would keep the text of the call before
BufferKept(argument_buffer) == argument_buffer

\* execution_state["argument_buffer"] = "" on ACTION_EXECUTION_START
BufferReset(argument_buffer) == <<>>

\* the tool names of the configuration's entries
ToolNames(config) == {config[i].tool_name : i \in 1..Len(config)}

PredictResult(es, message, raised) ==
    [execution_state |-> es, message |-> message, raised |-> raised]

predict_state(event_data, execution_state, state) ==
    IF event_data.type = "ACTION_EXECUTION_START" THEN
      PredictResult([execution_state EXCEPT !.current_tool_call = event_data.name,
                                            !.argument_buffer = BufferReset(@)],
                    NoMessage, None)
    ELSE IF event_data.type = "ACTION_EXECUTION_ARGS" THEN
      LET es1 == [execution_state EXCEPT
                    !.argument_buffer = BufferAppend(@, event_data.text)]
          parsed == PartialJSONParse(es1.argument_buffer)
      IN  IF es1.current_tool_call \notin ToolNames(es1.predict_state_configuration)
            THEN PredictResult(es1, NoMessage, None)
          ELSE IF ~parsed.ok THEN PredictResult(es1, NoMessage, None)
          ELSE
            LET r == PredictLoop(es1.predict_state_configuration, 1,
                                 es1.current_tool_call, parsed.val,
                                 [predicted_state |-> es1.predicted_state,
                                  emit_update |-> FALSE, raised |-> None])
                es2 == [es1 EXCEPT !.predicted_state = r.predicted_state]
            IN  IF r.raised # None THEN PredictResult(es2, NoMessage, r.raised)
                ELSE IF r.emit_update THEN
                  PredictResult(es2,
                    agent_state_message(es2.node_name, TRUE,
                      json_dumps(filter_state(DictMerge(state, es2.predicted_state), {})),
                      TRUE),
                    None)
                ELSE PredictResult(es2, NoMessage, None)
    ELSE PredictResult(execution_state, NoMessage, None)

(***************************************************************************)
(* handle_crewai_flow_event: the execution state after the event, the      *)
(* batch returned (<<>> for None) and the exception raised, if any.        *)
(***************************************************************************)
HandleResult(es, json_lines, raised) ==
    [execution_state |-> es, json_lines |-> json_lines, raised |-> raised]

OnEmitMessage(event_data, es) ==
    HandleResult(es,
      emit_runtime_events(<<text_message_start(event_data.id, None),
                            text_message_content(event_data.id, event_data.text),
                            text_message_end(event_data.id)>>),
      None)

OnEmitToolCall(event_data, es) ==
    HandleResult(es,
      emit_runtime_events(<<action_execution_start(event_data.id, event_data.name, None),
                            action_execution_args(event_data.id, json_dumps(event_data.dict)),
                            action_execution_end(event_data.id)>>),
      None)

OnEmitState(event_data, es) ==
    HandleResult(es,
      emit_runtime_events(<<agent_state_message(es.node_name, TRUE,
                              json_dumps(filter_state(event_data.dict, {})), TRUE)>>),
      None)

OnExit(es) == HandleResult([es EXCEPT !.should_exit = TRUE], <<>>, None)

\* a configuration event that would drop what was predicted under the old one
OnPredictStateClears(event_data, es) ==
    HandleResult([es EXCEPT !.predict_state_configuration = event_data.config,
                            !.predicted_state = NoDict], <<>>, None)

\* execution_state["predict_state_configuration"] = event_data["config"]
OnPredictState(event_data, es) ==
    HandleResult([es EXCEPT !.predict_state_configuration = event_data.config], <<>>, None)

\* a method start that would not record the node name
OnMethodStartedKeepsNode(event_data, state, es) ==
    HandleResult(es,
      emit_runtime_events(<<agent_state_message(es.node_name, TRUE,
        json_dumps(filter_state([k \in DOMAIN state \ {"messages"} |-> state[k]], {})),
        TRUE)>>),
      None)

\* METHOD_EXECUTION_STARTED
OnMethodStarted(event_data, state, es) ==
    LET es1 == [es EXCEPT !.node_name = event_data.name]
    IN  HandleResult(es1,
          emit_runtime_events(<<agent_state_message(es1.node_name, TRUE,
            json_dumps(filter_state([k \in DOMAIN state \ {"messages"} |-> state[k]], {})),
            TRUE)>>),
          None)

\* a reset of the whole execution state at the end of a method
OnMethodFinishedResetsAll(state, es) ==
    HandleResult([es EXCEPT !.predict_state_configuration = <<>>,
                            !.current_tool_call = None,
                            !.argument_buffer = <<>>,
                            !.predicted_state = NoDict,
                            !.is_finished = FALSE],
      emit_runtime_events(<<agent_state_message(es.node_name, FALSE,
        json_dumps(filter_state([k \in DOMAIN state \ {"messages"} |-> state[k]], {})),
        TRUE)>>),
      None)

\* a method end that would leave the argument buffer as it is
OnMethodFinishedKeepsBuffer(state, es) ==
    LET es1 == [es EXCEPT !.predict_state_configuration = <<>>,
                          !.current_tool_call = None,
                          !.predicted_state = NoDict]
    IN  HandleResult(es1,
          emit_runtime_events(<<agent_state_message(es1.node_name, FALSE,
            json_dumps(filter_state([k \in DOMAIN state \ {"messages"} |-> state[k]], {})),
            TRUE)>>),
          None)

\* a method end that would leave the predict-state configuration in place
OnMethodFinishedKeepsConfig(state, es) ==
    LET es1 == [es EXCEPT !.current_tool_call = None,
                          !.argument_buffer = <<>>,
                          !.predicted_state = NoDict]
    IN  HandleResult(es1,
          emit_runtime_events(<<agent_state_message(es1.node_name, FALSE,
            json_dumps(filter_state([k \in DOMAIN state \ {"messages"} |-> state[k]], {})),
            TRUE)>>),
          None)

\* METHOD_EXECUTION_FINISHED
OnMethodFinished(state, es) ==
    LET es1 == [es EXCEPT !.predict_state_configuration = <<>>,
                          !.current_tool_call = None,
                          !.argument_buffer = <<>>,
                          !.predicted_state = NoDict]
    IN  HandleResult(es1,
          emit_runtime_events(<<agent_state_message(es1.node_name, FALSE,
            json_dumps(filter_state([k \in DOMAIN state \ {"messages"} |-> state[k]], {})),
            TRUE)>>),
          None)

OnFlowStarted(es) == HandleResult(es, <<>>, None)

OnFlowFinished(es) == HandleResult([es EXCEPT !.is_finished = TRUE], <<>>, None)

\* the error passed on to the caller
OnFlowErrorPropagates(es) ==
    HandleResult([es EXCEPT !.is_finished = TRUE], <<>>, "FlowError")

OnFlowError(es) == HandleResult([es EXCEPT !.is_finished = TRUE], <<>>, None)

OnTextMessageStart(event_data, es) ==
    HandleResult(es,
      emit_runtime_events(<<text_message_start(event_data.id, event_data.parent)>>), None)

OnTextMessageContent(event_data, es) ==
    HandleResult(es,
      emit_runtime_events(<<text_message_content(event_data.id, event_data.text)>>), None)

OnTextMessageEnd(event_data, es) ==
    HandleResult(es, emit_runtime_events(<<text_message_end(event_data.id)>>), None)

\* the predictor's result appended without the test for None
WithPredictionUnchecked(events, p) ==
    IF p.raised # None THEN HandleResult(p.execution_state, <<>>, p.raised)
    ELSE HandleResult(p.execution_state,
           emit_runtime_events(Append(events, p.message)), None)

\* the events list with the predicted message appended when there is one
WithPrediction(events, p) ==
    IF p.raised # None THEN HandleResult(p.execution_state, <<>>, p.raised)
    ELSE HandleResult(p.execution_state,
           emit_runtime_events(IF p.message # NoMessage
                                 THEN Append(events, p.message) ELSE events),
           None)

OnActionExecutionStart(event_data, state, es) ==
    WithPrediction(
      <<action_execution_start(event_data.id, event_data.name, event_data.parent)>>,
      predict_state(event_data, es, state))

OnActionExecutionArgs(event_data, state, es) ==
    WithPrediction(
      <<action_execution_args(event_data.id, event_data.text)>>,
      predict_state(event_data, es, state))

OnActionExecutionEnd(event_data, es) ==
    HandleResult(es, emit_runtime_events(<<action_execution_end(event_data.id)>>), None)

\* an unknown type ignored like flow-started
OnUnknownIgnored(es) == HandleResult(es, <<>>, None)

\* raise ValueError(f"Unknown event type: ...")
OnUnknown(es) == HandleResult(es, <<>>, "ValueError")

handle_crewai_flow_event(event_data, state, execution_state) ==
    LET t == event_data.type
        es == execution_state
    IN  CASE t = "EMIT_MESSAGE" -> OnEmitMessage(event_data, es)
          [] t = "EMIT_TOOL_CALL" -> OnEmitToolCall(event_data, es)
          [] t = "EMIT_STATE" -> OnEmitState(event_data, es)
          [] t = "EXIT" -> OnExit(es)
          [] t = "PREDICT_STATE" -> OnPredictState(event_data, es)
          [] t = "METHOD_EXECUTION_STARTED" -> OnMethodStarted(event_data, state, es)
          [] t = "METHOD_EXECUTION_FINISHED" -> OnMethodFinished(state, es)
          [] t = "FLOW_EXECUTION_STARTED" -> OnFlowStarted(es)
          [] t = "FLOW_EXECUTION_FINISHED" -> OnFlowFinished(es)
          [] t = "FLOW_EXECUTION_ERROR" -> OnFlowError(es)
          [] t = "TEXT_MESSAGE_START" -> OnTextMessageStart(event_data, es)
          [] t = "TEXT_MESSAGE_CONTENT" -> OnTextMessageContent(event_data, es)
          [] t = "TEXT_MESSAGE_END" -> OnTextMessageEnd(event_data, es)
          [] t = "ACTION_EXECUTION_START" -> OnActionExecutionStart(event_data, state, es)
          [] t = "ACTION_EXECUTION_ARGS" -> OnActionExecutionArgs(event_data, state, es)
          [] t = "ACTION_EXECUTION_END" -> OnActionExecutionEnd(event_data, es)
          [] OTHER -> OnUnknown(es)

(***************************************************************************)
(* Inputs of the model.                                                    *)
(***************************************************************************)
\* argument fragments a tool call may stream
Frag1 == <<"{", "\"", "t", "e">>

Frag2 == <<"x", "t", "\"", ":", " ", "\"", "h", "e", "l">>

Frag3 == <<"l", "o", "\"", "}">>

FragText == <<"{", "\"", "t", "e", "x", "t", "\"", ":", "\"", "h", "i", "\"", "}">>

FragTextOpen == <<"{", "\"", "t", "e", "x", "t", "\"", ":", "\"", "y", "o", "\"", ",">>

FragOther == <<"{", "\"", "b", "\"", ":", "\"", "x", "\"", "}">>

FragArray == <<"[", "]">>

FragBlank == <<" ">>

Fragments ==
    {Frag1, Frag2, Frag3, FragText, FragTextOpen, FragOther, FragArray, FragBlank}

ArgText == <<"t", "e", "x", "t">>

\* predict-state configurations: key -> {tool_name, tool_argument}
CfgField == <<[key |-> "summary", tool_name |-> "save", tool_argument |-> ArgText]>>

CfgWhole == <<[key |-> "doc", tool_name |-> "save", tool_argument |-> NoArgument]>>

CfgBoth == CfgField \o CfgWhole

Digit(n) == <<"0", "1", "2", "3", "4", "5", "6", "7", "8", "9">>[n + 1]

\* the flow state after the worker's n-th write
FlowState(n) ==
    [k \in {"id", "messages", "x"} |->
        CASE k = "id" -> JStr(<<"i", "d">>)
          [] k = "messages" -> JArr(<<<<"h", "i">>>>)
          [] k = "x" -> JNum(<<Digit(n)>>)]

\* the state an emit-state event carries
EmittedState == [k \in {"id", "messages", "x"} |->
                    IF k = "x" THEN JNum(<<"7">>) ELSE FlowState(0)[k]]

\* the events of every type, with id as message_id / action_execution_id
EventsOfEveryType(id, fragments, configs, tools) ==
    {Event(t, id, None, <<>>, NoDict, <<>>) :
        t \in {"EXIT", "METHOD_EXECUTION_FINISHED", "FLOW_EXECUTION_STARTED",
               "FLOW_EXECUTION_FINISHED", "FLOW_EXECUTION_ERROR", "TEXT_MESSAGE_START",
               "TEXT_MESSAGE_END", "ACTION_EXECUTION_END", "UNKNOWN"}}
    \cup {Event("EMIT_MESSAGE", id, None, <<"h", "i">>, NoDict, <<>>),
          Event("TEXT_MESSAGE_CONTENT", id, None, <<"h", "i">>, NoDict, <<>>),
          Event("EMIT_TOOL_CALL", id, "save", <<>>, NoDict, <<>>),
          Event("EMIT_STATE", id, None, <<>>, EmittedState, <<>>),
          Event("METHOD_EXECUTION_STARTED", id, "a", <<>>, NoDict, <<>>)}
    \cup {Event("PREDICT_STATE", id, None, <<>>, NoDict, c) : c \in configs}
    \cup {Event("ACTION_EXECUTION_START", id, n, <<>>, NoDict, <<>>) : n \in tools}
    \cup {Event("ACTION_EXECUTION_ARGS", id, None, f, NoDict, <<>>) : f \in fragments}

(***************************************************************************)
(* The state objects of a run as an object graph: heap[a] is the dict at   *)
(* address a, a cell of it a JSON value (ref = 0) or a reference to the    *)
(* dict at address ref.  A new dict takes the next address.                *)
(***************************************************************************)
Val(v) == [ref |-> 0, val |-> v]

Ref(a) == [ref |-> a, val |-> JNone]

NoCells == [k \in {} |-> Val(JNone)]

\* the state the caller passes: {"x": 0, "doc": {"n": 0}}
CallerNested == [k \in {"n"} |-> Val(JNum(<<"0">>))]

CallerTop == [k \in {"x", "doc"} |-> IF k = "x" THEN Val(JNum(<<"0">>)) ELSE Ref(2)]

CallerHeap == <<CallerTop, CallerNested>>

\* the address of the caller's state
CallerState == 1

\* the messages the caller passes, a system message first
CallerMessages ==
    <<[role |-> "system", content |-> <<"s">>], [role |-> "user", content |-> <<"h", "i">>]>>

\* copilotkit_messages_to_crewai_flow: each message in the flow's form
copilotkit_messages_to_crewai_flow(messages) == messages

\* copy.deepcopy: a new dict for the dict at a and for every dict below it
RECURSIVE DeepCopy(_, _)
RECURSIVE DeepCopyCells(_, _, _, _)
DeepCopyCells(h, obj, keys, acc) ==
    IF keys = {} THEN [heap |-> h, obj |-> acc]
    ELSE
      LET k == CHOOSE x \in keys : TRUE
      IN  IF obj[k].ref = 0
            THEN DeepCopyCells(h, obj, keys \ {k}, DictSet(acc, k, obj[k]))
          ELSE
            LET sub == DeepCopy(h, obj[k].ref)
            IN  DeepCopyCells(sub.heap, obj, keys \ {k}, DictSet(acc, k, Ref(sub.addr)))

DeepCopy(h, a) ==
    LET r == DeepCopyCells(h, h[a], DOMAIN h[a], NoCells)
    IN  [heap |-> Append(r.heap, r.obj), addr |-> Len(r.heap) + 1]

\* the state handed to the worker as it is, without a copy
DeepCopyOmitted(h, a) == [heap |-> h, addr |-> a]

\* deepcopy(state) at the thread's construction
WorkerCopy(h, a) == DeepCopy(h, a)

\* crewai_flow_default_merge_state: a new dict {**state, "messages": ...,
\* "copilotkit": {"actions": [...]}}; the values of state are shared, not copied
crewai_flow_default_merge_state(h, state, messages, actions) ==
    LET msgs == IF Len(messages) > 0 /\ messages[1].role = "system"
                  THEN Tail(messages) ELSE messages
        h1   == Append(h, [k \in {"actions"} |-> Val(JArr(actions))])
        new_state ==
          DictMerge(h1[state],
            [k \in {"messages", "copilotkit"} |->
               IF k = "messages"
                 THEN Val(JArr([i \in 1..Len(msgs) |-> msgs[i].content]))
                 ELSE Ref(Len(h1))])
    IN  [heap |-> Append(h1, new_state), addr |-> Len(h1) + 1]

\* self.copilotkit_config.get("merge_state", crewai_flow_default_merge_state);
\* a configured hook is the caller's own code: the one modelled returns the
\* state object it was given
MergeState(hook, h, state, messages, actions) ==
    IF hook = "default" THEN crewai_flow_default_merge_state(h, state, messages, actions)
    ELSE [heap |-> h, addr |-> state]

\* the dicts reachable from the dict at a
RECURSIVE Reachable(_, _)
Reachable(h, a) ==
    {a} \cup UNION {Reachable(h, h[a][k].ref) : k \in {x \in DOMAIN h[a] : h[a][x].ref # 0}}

\* the worker assigns v to every plain value of the dicts it can reach
WriteThrough(h, root, v) ==
    [a \in 1..Len(h) |->
       IF a \in Reachable(h, root)
         THEN [k \in DOMAIN h[a] |->
                 IF h[a][k].ref = 0 /\ h[a][k].val.kind = "num" THEN Val(v) ELSE h[a][k]]
         ELSE h[a]]

(***************************************************************************)
(* CrewAIAgent.__init__ and the part of execute_flow before the loop.      *)
(***************************************************************************)
NoAgent == [made |-> FALSE, crew |-> None, flow |-> None, merge_state |-> None]

\* __init__: the agent built, or ValueError when neither or both are given
Construct(crew, flow, merge_state) ==
    IF (crew = None) = (flow = None)
      THEN [agent |-> NoAgent, raised |-> "ValueError"]
      ELSE [agent |-> [made |-> TRUE, crew |-> crew, flow |-> flow,
                       merge_state |-> merge_state],
            raised |-> None]

\* what the prelude has done: the flow instantiated, the state merged, the
\* thread started, and the state object the worker was given
NoRun ==
    [thread_id |-> None, flow_made |-> FALSE, merged |-> FALSE, started |-> FALSE,
     worker_state |-> 0]

PreludeResult(run, heap, raised) == [run |-> run, heap |-> heap, raised |-> raised]

\* a prelude that would instantiate the flow before it looks at thread_id
PreludeChecksLate(a, thread_id, h) ==
    IF a.flow = None THEN PreludeResult([NoRun EXCEPT !.thread_id = thread_id], h, "ValueError")
    ELSE IF thread_id = None
      THEN PreludeResult([NoRun EXCEPT !.thread_id = thread_id, !.flow_made = TRUE],
                         h, "ValueError")
    ELSE
      LET m == MergeState(a.merge_state, h, CallerState,
                          copilotkit_messages_to_crewai_flow(CallerMessages), <<>>)
          c == WorkerCopy(m.heap, m.addr)
      IN  PreludeResult([thread_id |-> thread_id, flow_made |-> TRUE, merged |-> TRUE,
                         started |-> TRUE, worker_state |-> c.addr], c.heap, None)

\* execute_flow from its first line to t.start()
Prelude(a, thread_id, h) ==
    IF a.flow = None THEN PreludeResult([NoRun EXCEPT !.thread_id = thread_id], h, "ValueError")
    ELSE IF thread_id = None
      THEN PreludeResult([NoRun EXCEPT !.thread_id = thread_id], h, "ValueError")
    ELSE
      LET m == MergeState(a.merge_state, h, CallerState,
                          copilotkit_messages_to_crewai_flow(CallerMessages), <<>>)
          c == WorkerCopy(m.heap, m.addr)
      IN  PreludeResult([thread_id |-> thread_id, flow_made |-> TRUE, merged |-> TRUE,
                         started |-> TRUE, worker_state |-> c.addr], c.heap, None)

\* the agent and the call that the runs of Spec start from
FlowAgent == Construct(None, "Flow", "default").agent

Started == Prelude(FlowAgent, "t1", CallerHeap)

(***************************************************************************)
(* State.                                                                  *)
(***************************************************************************)
VARIABLES
    agent,            \* the CrewAIAgent, once constructed
    run,              \* thread_id and what the prelude of execute_flow has done
    heap,             \* the state objects: the caller's, the merged one, the worker's
    worker,           \* the thread t: "unstarted" | "running" | "done"
    produced,         \* every event the worker has put on the queue, in order
    writes,           \* the worker's writes to flow.state so far
    flow_state,       \* flow.state
    local_queue,      \* local_queue
    put_at,           \* for each event in the queue, the flow state at its put
                      \* (<<the number of writes made before it>>) where kept
    pc,               \* "new" | "ready" | "called", then execute_flow:
                      \* "get" | "cede" | "join" | "done" | "raised"
    execution_state,  \* execution_state
    out,              \* the batches execute_flow has yielded
    raised,           \* the exception that left the driver or the handler
    handled,          \* the last event handled, the batch returned for it,
                      \* predicted_state as it was before it and the flow state
                      \* at its put
    frags             \* the fragments handled since the last reset of the buffer

vars == <<agent, run, heap, worker, produced, writes, flow_state, local_queue, put_at,
          pc, execution_state, out, raised, handled, frags>>

InitialExecutionState ==
    [should_exit |-> FALSE,
     node_name |-> "start",
     is_finished |-> FALSE,
     predict_state_configuration |-> <<>>,
     predicted_state |-> NoDict,
     argument_buffer |-> <<>>,
     current_tool_call |-> None]

NothingHandled ==
    [event |-> Event(None, 0, None, <<>>, NoDict, <<>>), json_lines |-> <<>>,
     predicted_before |-> NoDict, put_at |-> <<>>]

Init ==
    /\ agent = FlowAgent
    /\ run = Started.run
    /\ heap = Started.heap
    /\ worker = "running"
    /\ produced = <<>>
    /\ writes = 0
    /\ flow_state = FlowState(0)
    /\ local_queue = <<>>
    /\ put_at = <<>>
    /\ pc = "get"
    /\ execution_state = InitialExecutionState
    /\ out = <<>>
    /\ raised = None
    /\ handled = NothingHandled
    /\ frags = <<>>

\* the fragments since the buffer was last reset, after event ev
FragsAfter(ev) ==
    CASE ev.type \in {"ACTION_EXECUTION_START", "METHOD_EXECUTION_FINISHED"} -> <<>>
      [] ev.type = "ACTION_EXECUTION_ARGS" -> Append(frags, ev.text)
      [] OTHER -> frags

(***************************************************************************)
(* The worker thread (_crewai_flow_thread_runner running the flow): a      *)
(* black box that puts events of any type on the queue in any order,       *)
(* writes to flow.state, and returns.                                      *)
(***************************************************************************)
\* The pass-through types behave alike in the driver; it is given one of each
\* family, and every type is handled under SpecMapper.
WorkerEvents ==
    {ev \in EventsOfEveryType(Len(produced) + 1, {FragText, FragArray}, {CfgField}, {"save"}) :
        ev.type \notin {"EMIT_TOOL_CALL", "FLOW_EXECUTION_STARTED", "TEXT_MESSAGE_START",
                        "TEXT_MESSAGE_END", "ACTION_EXECUTION_END"}}

\* the worker puts ev, one of at most max events; at is the mark kept beside it
WorkerPutUpTo(ev, at, max) ==
    /\ worker = "running"
    /\ Len(produced) < max
    /\ produced' = Append(produced, ev)
    /\ local_queue' = Append(local_queue, ev)
    /\ put_at' = Append(put_at, at)
    /\ UNCHANGED <<agent, run, heap, worker, writes, flow_state, pc, execution_state,
                   out, raised, handled, frags>>

\* the worker puts ev; at is the mark kept beside it
WorkerPutAt(ev, at) == WorkerPutUpTo(ev, at, MaxEvents)

\* a put whose flow state is not kept
WorkerPut(ev) == WorkerPutAt(ev, <<>>)

\* a put marked with the flow state it was made in
WorkerPutStamped(ev) == WorkerPutAt(ev, <<writes>>)

WorkerWrite ==
    /\ worker = "running"
    /\ writes < MaxWrites
    /\ writes' = writes + 1
    /\ flow_state' = FlowState(writes + 1)
    /\ heap' = WriteThrough(heap, run.worker_state, JNum(<<Digit(writes + 1)>>))
    /\ UNCHANGED <<agent, run, worker, produced, local_queue, put_at, pc,
                   execution_state, out, raised, handled, frags>>

WorkerReturn ==
    /\ worker = "running"
    /\ worker' = "done"
    /\ UNCHANGED <<agent, run, heap, produced, writes, flow_state, local_queue, put_at,
                   pc, execution_state, out, raised, handled, frags>>

(***************************************************************************)
(* CrewAIAgent.execute_flow, from the loop on.                             *)
(***************************************************************************)
\* local_queue.get(): the item taken and the queue left
QueueGet(q) == [item |-> Head(q), rest |-> Tail(q)]

\* a loop that would break on should_exit in place of is_finished
LoopBreaksOnExit(es) == es.should_exit

\* if execution_state["is_finished"]: break
LoopBreaks(es) == es.is_finished

\* a loop that would go back to the queue without the turn
AfterEventNoTurn(es) == IF LoopBreaks(es) THEN "join" ELSE "get"

\* after the yield: break to the join when is_finished, else await the future
AfterEvent(es) == IF LoopBreaks(es) THEN "join" ELSE "cede"

\* a join that would not wait for the worker
JoinReturnsAtOnce(w) == TRUE

\* t.join() returns
JoinReturns(w) == w = "done"

\* crewai_flow_messages_to_copilotkit: each flow message as a protocol message
crewai_flow_messages_to_copilotkit(messages) ==
    JArr([i \in 1..Len(messages.arr) |-> <<"c", "k", ":">> \o messages.arr[i]])

\* the batch yielded after the join
FinalSnapshot(state, es) ==
    emit_runtime_events(<<agent_state_message(es.node_name, FALSE,
        json_dumps(filter_state(
          IF "messages" \in DOMAIN state
            THEN [state EXCEPT !["messages"] = crewai_flow_messages_to_copilotkit(@)]
            ELSE state, {"id"})),
        ~es.should_exit)>>)

\* one turn of the loop: get, handle, yield, test is_finished
DriverStep ==
    /\ pc = "get"
    /\ local_queue # <<>>
    /\ LET got == QueueGet(local_queue)
           r   == handle_crewai_flow_event(got.item, flow_state, execution_state)
       IN  /\ local_queue' = got.rest
           /\ put_at' = Tail(put_at)
           /\ execution_state' = r.execution_state
           /\ handled' = [event |-> got.item, json_lines |-> r.json_lines,
                          predicted_before |-> execution_state.predicted_state,
                          put_at |-> Head(put_at)]
           /\ frags' = FragsAfter(got.item)
           /\ raised' = r.raised
           /\ IF r.raised # None
                THEN pc' = "raised" /\ out' = out
                ELSE /\ out' = IF r.json_lines # <<>> THEN Append(out, r.json_lines) ELSE out
                     /\ pc' = AfterEvent(r.execution_state)
    /\ UNCHANGED <<agent, run, heap, worker, produced, writes, flow_state>>

\* await future: one turn of the event loop
DriverCede ==
    /\ pc = "cede"
    /\ pc' = "get"
    /\ UNCHANGED <<agent, run, heap, worker, produced, writes, flow_state, local_queue,
                   put_at, execution_state, out, raised, handled, frags>>

\* t.join(), then the final state
DriverFinish ==
    /\ pc = "join"
    /\ JoinReturns(worker)
    /\ out' = Append(out, FinalSnapshot(flow_state, execution_state))
    /\ pc' = "done"
    /\ UNCHANGED <<agent, run, heap, worker, produced, writes, flow_state, local_queue,
                   put_at, execution_state, raised, handled, frags>>

Next ==
    \/ \E ev \in WorkerEvents : WorkerPut(ev)
    \/ WorkerWrite
    \/ WorkerReturn
    \/ DriverStep
    \/ DriverCede
    \/ DriverFinish

Spec == Init /\ [][Next]_vars

(***************************************************************************)
(* The loop under fairness of the driver, for runs long enough to hold a   *)
(* tracked tool call and a terminal event after it.                        *)
(***************************************************************************)
MaxLiveEvents == MaxEvents + 1

LiveEvents ==
    {ev \in EventsOfEveryType(Len(produced) + 1, {FragArray}, {CfgField}, {"save"}) :
        ev.type \in {"PREDICT_STATE", "ACTION_EXECUTION_START", "ACTION_EXECUTION_ARGS",
                     "FLOW_EXECUTION_FINISHED", "FLOW_EXECUTION_ERROR", "UNKNOWN"}}

NextLive ==
    \/ \E ev \in LiveEvents : WorkerPutUpTo(ev, <<>>, MaxLiveEvents)
    \/ WorkerReturn
    \/ DriverStep
    \/ DriverCede
    \/ DriverFinish

\* The driver is a coroutine the consumer keeps resuming: a step of it that
\* stays possible is taken. local_queue.get() with an empty queue is no step.
\* Nothing is asked of the worker, which may stop putting events at any point.
DriverRuns == WF_vars(DriverStep) /\ WF_vars(DriverCede) /\ WF_vars(DriverFinish)

SpecLive == Init /\ [][NextLive]_vars /\ DriverRuns

(***************************************************************************)
(* A run from the construction of the agent on: __init__, the call of      *)
(* execute_flow (an async generator: the call runs none of its body), its  *)
(* first resumption up to t.start(), then the loop as above.               *)
(***************************************************************************)
InitRun ==
    /\ agent = NoAgent
    /\ run = NoRun
    /\ heap = CallerHeap
    /\ worker = "unstarted"
    /\ produced = <<>>
    /\ writes = 0
    /\ flow_state = FlowState(0)
    /\ local_queue = <<>>
    /\ put_at = <<>>
    /\ pc = "new"
    /\ execution_state = InitialExecutionState
    /\ out = <<>>
    /\ raised = None
    /\ handled = NothingHandled
    /\ frags = <<>>

\* CrewAIAgent(name=..., crew=..., flow=..., copilotkit_config=...)
AgentNew(crew, flow, merge_state) ==
    /\ pc = "new"
    /\ LET r == Construct(crew, flow, merge_state)
       IN  /\ agent' = r.agent
           /\ raised' = r.raised
           /\ pc' = IF r.raised # None THEN "raised" ELSE "ready"
    /\ UNCHANGED <<run, heap, worker, produced, writes, flow_state, local_queue, put_at,
                   execution_state, out, handled, frags>>

\* agent.execute_flow(state=..., messages=..., thread_id=...): the generator made
ExecuteFlowCall(thread_id) ==
    /\ pc = "ready"
    /\ run' = [run EXCEPT !.thread_id = thread_id]
    /\ pc' = "called"
    /\ UNCHANGED <<agent, heap, worker, produced, writes, flow_state, local_queue,
                   put_at, execution_state, out, raised, handled, frags>>

\* the generator's first resumption: lines 164 to 203
ExecuteFlowStart ==
    /\ pc = "called"
    /\ LET r == Prelude(agent, run.thread_id, heap)
       IN  /\ run' = r.run
           /\ heap' = r.heap
           /\ raised' = r.raised
           /\ worker' = IF r.run.started THEN "running" ELSE worker
           /\ pc' = IF r.raised # None THEN "raised" ELSE "get"
    /\ UNCHANGED <<agent, produced, writes, flow_state, local_queue, put_at,
                   execution_state, out, handled, frags>>

\* the events the worker of such a run puts
RunEvents ==
    {ev \in EventsOfEveryType(Len(produced) + 1, {}, {}, {}) :
        ev.type \in {"METHOD_EXECUTION_STARTED", "EXIT", "FLOW_EXECUTION_FINISHED", "UNKNOWN"}}

NextRun ==
    \/ \E crew \in {None, "Crew"}, flow \in {None, "Flow"}, m \in {"default", "given"} :
          AgentNew(crew, flow, m)
    \/ \E thread_id \in {None, "t1"} : ExecuteFlowCall(thread_id)
    \/ ExecuteFlowStart
    \/ \E ev \in RunEvents : WorkerPut(ev)
    \/ WorkerWrite
    \/ WorkerReturn
    \/ DriverStep
    \/ DriverCede
    \/ DriverFinish

SpecRun == InitRun /\ [][NextRun]_vars

(***************************************************************************)
(* The loop with every put marked with the flow state it was made in, for  *)
(* the events whose handling reads flow.state or yields a snapshot.        *)
(***************************************************************************)
RaceEvents ==
    {ev \in EventsOfEveryType(Len(produced) + 1, {FragText}, {CfgWhole}, {"save"}) :
        ev.type \in {"EMIT_STATE", "PREDICT_STATE", "METHOD_EXECUTION_STARTED",
                     "METHOD_EXECUTION_FINISHED", "ACTION_EXECUTION_START",
                     "ACTION_EXECUTION_ARGS", "FLOW_EXECUTION_FINISHED"}}

NextRace ==
    \/ \E ev \in RaceEvents : WorkerPutStamped(ev)
    \/ WorkerWrite
    \/ WorkerReturn
    \/ DriverStep
    \/ DriverCede
    \/ DriverFinish

SpecRace == Init /\ [][NextRace]_vars

(***************************************************************************)
(* The event mapper and the predictor on their own: any event handled      *)
(* after any other, against the execution state the earlier ones left.     *)
(***************************************************************************)
Handle(ev) ==
    /\ raised = None
    /\ ev.type = "ACTION_EXECUTION_ARGS" =>
          /\ Len(frags) < MaxFrags
          /\ Len(execution_state.argument_buffer) + Len(ev.text) <= MaxBuffer
    /\ LET r == handle_crewai_flow_event(ev, flow_state, execution_state)
       IN  /\ execution_state' = r.execution_state
           /\ handled' = [event |-> ev, json_lines |-> r.json_lines,
                          predicted_before |-> execution_state.predicted_state,
                          put_at |-> <<>>]
           /\ raised' = r.raised
    /\ frags' = FragsAfter(ev)
    /\ UNCHANGED <<agent, run, heap, worker, produced, writes, flow_state, local_queue,
                   put_at, pc, out>>

MapperEvents ==
    EventsOfEveryType(1, {FragText, FragArray}, {CfgField, CfgWhole}, {"save", "load"})

NextMapper == \E ev \in MapperEvents : Handle(ev)

SpecMapper == Init /\ [][NextMapper]_vars

PredictEvents ==
    {ev \in EventsOfEveryType(1, Fragments, {CfgField, CfgWhole, CfgBoth}, {"save"}) :
        ev.type \in {"PREDICT_STATE", "ACTION_EXECUTION_START", "ACTION_EXECUTION_ARGS",
                     "METHOD_EXECUTION_FINISHED"}}

NextPredict == \E ev \in PredictEvents : Handle(ev)

SpecPredict == Init /\ [][NextPredict]_vars
(***************************************************************************)
(* Properties of the run driver (Spec).                                    *)
(***************************************************************************)
\* the events the driver has taken off the queue, in the order they were put
Consumed == SubSeq(produced, 1, Len(produced) - Len(local_queue))

\* the batches yielded by the loop: all of out but the final snapshot
RelayBatches == IF pc = "done" THEN SubSeq(out, 1, Len(out) - 1) ELSE out

TerminalTypes == {"FLOW_EXECUTION_FINISHED", "FLOW_EXECUTION_ERROR"}

KnownTypes ==
    {"EMIT_MESSAGE", "EMIT_TOOL_CALL", "EMIT_STATE", "EXIT", "PREDICT_STATE",
     "METHOD_EXECUTION_STARTED", "METHOD_EXECUTION_FINISHED", "FLOW_EXECUTION_STARTED",
     "FLOW_EXECUTION_FINISHED", "FLOW_EXECUTION_ERROR", "TEXT_MESSAGE_START",
     "TEXT_MESSAGE_CONTENT", "TEXT_MESSAGE_END", "ACTION_EXECUTION_START",
     "ACTION_EXECUTION_ARGS", "ACTION_EXECUTION_END"}

\* the mapping table: the protocol events of one internal event, as <<type, id>>
ExpectedShape(ev) ==
    CASE ev.type = "EMIT_MESSAGE" ->
           <<<<"TextMessageStart", ev.id>>, <<"TextMessageContent", ev.id>>,
             <<"TextMessageEnd", ev.id>>>>
      [] ev.type = "EMIT_TOOL_CALL" ->
           <<<<"ActionExecutionStart", ev.id>>, <<"ActionExecutionArgs", ev.id>>,
             <<"ActionExecutionEnd", ev.id>>>>
      [] ev.type \in {"EMIT_STATE", "METHOD_EXECUTION_STARTED", "METHOD_EXECUTION_FINISHED"} ->
           <<<<"AgentStateMessage", 0>>>>
      [] ev.type = "TEXT_MESSAGE_START" -> <<<<"TextMessageStart", ev.id>>>>
      [] ev.type = "TEXT_MESSAGE_CONTENT" -> <<<<"TextMessageContent", ev.id>>>>
      [] ev.type = "TEXT_MESSAGE_END" -> <<<<"TextMessageEnd", ev.id>>>>
      [] ev.type = "ACTION_EXECUTION_START" -> <<<<"ActionExecutionStart", ev.id>>>>
      [] ev.type = "ACTION_EXECUTION_ARGS" -> <<<<"ActionExecutionArgs", ev.id>>>>
      [] ev.type = "ACTION_EXECUTION_END" -> <<<<"ActionExecutionEnd", ev.id>>>>
      [] OTHER -> <<>>

ProtocolId(e) ==
    CASE e.type \in {"TextMessageStart", "TextMessageContent", "TextMessageEnd"} -> e.messageId
      [] e.type \in {"ActionExecutionStart", "ActionExecutionArgs", "ActionExecutionEnd"} ->
           e.actionExecutionId
      [] OTHER -> 0

ShapeOf(batch) == [i \in 1..Len(batch) |-> <<batch[i].type, ProtocolId(batch[i])>>]

HasBatch(ev) == ExpectedShape(ev) # <<>>

\* batch is the mapping of ev: its table row, a predicted snapshot after the args
BatchMirrors(batch, ev) ==
    \/ ShapeOf(batch) = ExpectedShape(ev)
    \/ /\ ev.type = "ACTION_EXECUTION_ARGS"
       /\ ShapeOf(batch) = Append(ExpectedShape(ev), <<"AgentStateMessage", 0>>)

BatchesMirror(events) ==
    LET mapped == SelectSeq(events, HasBatch)
    IN  /\ Len(RelayBatches) = Len(mapped)
        /\ \A i \in 1..Len(mapped) : BatchMirrors(RelayBatches[i], mapped[i])

\* C1: the batches yielded before the final snapshot are exactly the non-empty
\* mappings of the events taken off the queue, in the order the worker put them:
\* none reordered, duplicated or dropped, each text/action event once and in the
\* place of its internal event.
C1_BatchesMirrorEvents == BatchesMirror(Consumed)

\* The same for the events whose handling returned: the order holds in every
\* run, and C1 fails only where a handler raises on an event of a known type.
RelayKeepsOrderWhereHandlersReturn ==
    BatchesMirror(IF raised = None THEN Consumed
                  ELSE SubSeq(Consumed, 1, Len(Consumed) - 1))

\* C2: once a flow-finished or flow-error event has been processed, the driver
\* takes nothing more off the queue and maps nothing: events put after the
\* terminal event change no execution-state field and give no batch, and the
\* only batch that follows is the final snapshot.
C2_NothingConsumedAfterTerminal ==
    [][execution_state.is_finished =>
         /\ Len(produced') - Len(local_queue') = Len(produced) - Len(local_queue)
         /\ handled' = handled
         /\ execution_state' = execution_state
         /\ \/ out' = out
            \/ /\ pc = "join" /\ pc' = "done"
               /\ out' = Append(out, FinalSnapshot(flow_state, execution_state))]_vars

C2_Witness ==
    /\ pc = "done"
    /\ handled.event.type \in TerminalTypes
    /\ local_queue # <<>>

\* C3: whenever execute_flow has ended, by the terminal event or by a fault
\* raised while mapping an event, the worker thread has run to completion.
C3_WorkerDoneWhenRunEnds == pc \in {"done", "raised"} => worker = "done"

IsFinalSnapshot(batch) ==
    /\ Len(batch) = 1
    /\ batch[1].type = "AgentStateMessage"
    /\ "messages" \in DOMAIN batch[1].state.json

ExitConsumed == \E i \in 1..Len(Consumed) : Consumed[i].type = "EXIT"

\* C4: a run that processes a terminal event yields exactly one final snapshot,
\* as its last batch and only after the worker thread has completed; it carries
\* the flow state left by the worker without the id key, active = false, and
\* running = false exactly when an exit event was processed in the run.
C4_FinalSnapshot ==
    /\ (\E i \in 1..Len(out) : IsFinalSnapshot(out[i])) => pc = "done" /\ worker = "done"
    /\ pc = "done" =>
         /\ \E i \in 1..Len(Consumed) : Consumed[i].type \in TerminalTypes
         /\ {i \in 1..Len(out) : IsFinalSnapshot(out[i])} = {Len(out)}
         /\ LET final == out[Len(out)][1]
            IN  /\ final.active = FALSE
                /\ final.running = ~ExitConsumed
                /\ DOMAIN final.state.json = DOMAIN FlowState(writes) \ {"id"}
                /\ final.state.json["x"] = FlowState(writes)["x"]
                /\ final.state.json["messages"] =
                     crewai_flow_messages_to_copilotkit(FlowState(writes)["messages"])

C4_Witness ==
    /\ pc = "done"
    /\ writes = MaxWrites
    /\ ExitConsumed
    /\ Len(out) > 1

\* C5: is_finished starts false, and once it is true no event handler sets it
\* back to false, whatever events are handled afterwards.
C5_IsFinishedMonotonic ==
    /\ ~execution_state.is_finished
    /\ [][execution_state.is_finished => execution_state'.is_finished]_vars

C5_Witness ==
    /\ execution_state.is_finished
    /\ handled.event.type = "METHOD_EXECUTION_FINISHED"

\* the driver has just taken an event off the queue and handled it
DriverHandled == Len(produced') - Len(local_queue') > Len(produced) - Len(local_queue)

\* C6: an event whose type is not in the mapping table makes the handler raise
\* at once: no protocol event is emitted for it, no execution-state field
\* changes, and the fault leaves the driver, which does nothing more.
C6_UnknownEventRaises ==
    /\ [][DriverHandled /\ handled'.event.type \notin KnownTypes =>
            /\ handled'.json_lines = <<>>
            /\ out' = out
            /\ execution_state' = execution_state
            /\ raised' = "ValueError"
            /\ pc' = "raised"]_vars
    /\ [][pc = "raised" =>
            /\ pc' = "raised" /\ raised' = raised /\ out' = out
            /\ execution_state' = execution_state
            /\ Len(local_queue') >= Len(local_queue)]_vars

C6_Witness ==
    /\ pc = "raised"
    /\ raised = "ValueError"
    /\ handled.event.type = "UNKNOWN"
    /\ out # <<>>
    /\ execution_state.current_tool_call = "save"

\* C7: a flow-error event is absorbed: handling it yields no batch, sets
\* is_finished and raises nothing; no other execution-state field changes then
\* or later, and the run ends with a final snapshot built from that state.
C7_FlowErrorAbsorbed ==
    /\ [][DriverHandled /\ handled'.event.type = "FLOW_EXECUTION_ERROR" =>
            /\ handled'.json_lines = <<>>
            /\ out' = out
            /\ raised' = None
            /\ execution_state' = [execution_state EXCEPT !.is_finished = TRUE]
            /\ pc' = "join"]_vars
    /\ [][handled.event.type = "FLOW_EXECUTION_ERROR" =>
            /\ raised' = None
            /\ execution_state' = execution_state
            /\ pc' \in {"join", "done"}
            /\ pc' = "done" =>
                 LET final == out'[Len(out')][1]
                 IN  /\ IsFinalSnapshot(out'[Len(out')])
                     /\ final.nodeName = execution_state.node_name
                     /\ final.running = ~execution_state.should_exit]_vars

C7_Witness ==
    /\ pc = "done"
    /\ handled.event.type = "FLOW_EXECUTION_ERROR"
    /\ execution_state.node_name = "a"
    /\ raised = None

(***************************************************************************)
(* Properties of the predictor (SpecPredict).                              *)
(***************************************************************************)
RECURSIVE Flatten(_)
Flatten(fs) == IF fs = <<>> THEN <<>> ELSE Head(fs) \o Flatten(Tail(fs))

ArgsHandled == handled.event.type = "ACTION_EXECUTION_ARGS"

\* the batch of the last event carries a predicted snapshot after its own event
PredictionEmitted == Len(handled.json_lines) = 2

NoPrediction == raised = None /\ Len(handled.json_lines) = 1

MatchingEntries ==
    {i \in 1..Len(execution_state.predict_state_configuration) :
        execution_state.predict_state_configuration[i].tool_name =
          execution_state.current_tool_call}

\* C8, the half that names the fault: for every fragment after which the buffer
\* is not one complete JSON object (cut short, malformed, or a JSON value that
\* is not an object), predict_state raises nothing.
C8_PredictorNeverRaises ==
    ArgsHandled /\ ~IsCompleteObject(execution_state.argument_buffer) => raised = None

\* the text holds a member "name": "..." whose string value is closed
MemberAt(s, i, name) ==
    LET e == i + Len(name) + 1
        j == SkipWs(s, e + 1)
        k == SkipWs(s, j + 1)
    IN  /\ e <= Len(s)
        /\ s[i] = "\"" /\ SubSeq(s, i + 1, e - 1) = name /\ s[e] = "\""
        /\ j <= Len(s) /\ s[j] = ":"
        /\ k <= Len(s) /\ s[k] = "\""
        /\ FindQuote(s, k + 1) # 0

HasCompleteValue(s, name) == \E i \in 1..Len(s) : MemberAt(s, i, name)

Hello == JStr(<<"h", "e", "l", "l", "o">>)

\* C9: when every configuration entry names a tool argument, a fragment yields
\* a predicted snapshot only if the buffer holds the complete value of the
\* argument of an entry of the current tool; with {summary: {save, text}} and
\* the fragments {"te / xt": "hel / lo"} after a start of save, the first two
\* yield none and the last yields summary = "hello".
C9_PredictionNeedsCompleteValue ==
    LET es  == execution_state
        cfg == es.predict_state_configuration
    IN  /\ ( /\ ArgsHandled
             /\ PredictionEmitted
             /\ \A i \in 1..Len(cfg) : cfg[i].tool_argument # NoArgument )
           => \E i \in MatchingEntries :
                 HasCompleteValue(es.argument_buffer, cfg[i].tool_argument)
        /\ ( ArgsHandled /\ cfg = CfgField /\ es.current_tool_call = "save" )
           => /\ frags = <<Frag1>> => NoPrediction
              /\ frags = <<Frag1, Frag2>> => NoPrediction
              /\ frags = <<Frag1, Frag2, Frag3>> =>
                   /\ raised = None
                   /\ PredictionEmitted
                   /\ handled.json_lines[2].type = "AgentStateMessage"
                   /\ handled.json_lines[2].state.json["summary"] = Hello
                   /\ es.predicted_state["summary"] = Hello

C9_Witness ==
    /\ ArgsHandled
    /\ execution_state.predict_state_configuration = CfgField
    /\ execution_state.current_tool_call = "save"
    /\ frags = <<Frag1, Frag2, Frag3>>
    /\ PredictionEmitted

\* the argument stream of the current tool call is valid JSON, one complete
\* object, after each of its fragments
StreamValidThroughout ==
    /\ frags # <<>>
    /\ \A n \in 1..Len(frags) : IsCompleteObject(Flatten(SubSeq(frags, 1, n)))

\* the value of entry v in the arguments parsed directly from the full text
DirectValue(v, text) ==
    LET full == PartialJSONParse(text).val
    IN  IF v.tool_argument = NoArgument THEN full ELSE DictGet(full.obj, v.tool_argument)

TrackedCallComplete ==
    /\ ArgsHandled
    /\ MatchingEntries # {}
    /\ StreamValidThroughout

\* C10 as stated: after the last fragment of a tracked tool call whose stream is
\* valid JSON throughout, the value stored under each matching key equals the
\* value parsed directly from the full argument text (the named field, or the
\* whole object), whatever tool calls preceded it in the step.
C10_StoredEqualsDirectParse ==
    TrackedCallComplete =>
      \A i \in MatchingEntries :
         LET v == execution_state.predict_state_configuration[i]
         IN  DictGet(execution_state.predicted_state, v.key) = DirectValue(v, Flatten(frags))

\* C10 amended: when the last fragment of such a call has been handled, the
\* stored value equals the directly parsed one for every matching key whose
\* value the arguments hold (the whole object, or a named field that is
\* present); a matching key whose named field is absent is left as the earlier
\* tool calls of the step left it.
C10_StoredWherePresentKeptWhereAbsent ==
    TrackedCallComplete =>
      \A i \in MatchingEntries :
         LET v      == execution_state.predict_state_configuration[i]
             direct == DirectValue(v, Flatten(frags))
         IN  DictGet(execution_state.predicted_state, v.key) =
               IF direct # JNone THEN direct ELSE DictGet(handled.predicted_before, v.key)

C10_Witness ==
    /\ TrackedCallComplete
    /\ Len(frags) = 2
    /\ execution_state.predict_state_configuration = CfgBoth
    /\ DictGet(execution_state.predicted_state, "summary") = JStr(<<"h", "i">>)
    /\ DirectValue(CfgField[1], Flatten(frags)) = JNone

(***************************************************************************)
(* Properties of the construction and the prelude (SpecRun).               *)
(***************************************************************************)
SetupFailed == pc = "raised" /\ ~run.started

\* C11: a configuration error is raised before any side effect: no agent
\* exists with neither or both of crew and flow, a failed construction leaves
\* no agent, and execute_flow without a thread_id (or without a flow) raises
\* ValueError at its first step with the flow not instantiated, the state not
\* merged, no state object created, the worker not started and nothing yielded.
C11_ConfigErrorBeforeSideEffects ==
    /\ agent.made => (agent.crew = None) # (agent.flow = None)
    /\ (pc # "new" /\ ~agent.made) => pc = "raised" /\ raised = "ValueError"
    /\ (pc \notin {"new", "ready", "called"} /\ (run.thread_id = None \/ agent.flow = None))
         => SetupFailed
    /\ SetupFailed =>
         /\ raised = "ValueError"
         /\ ~run.flow_made /\ ~run.merged
         /\ worker = "unstarted"
         /\ heap = CallerHeap
         /\ produced = <<>> /\ local_queue = <<>> /\ out = <<>>
         /\ execution_state = InitialExecutionState

C11_Witness ==
    /\ SetupFailed
    /\ agent.made /\ agent.flow = "Flow"
    /\ run.thread_id = None

\* C12: the state object the caller passes is never mutated by the run: it and
\* its nested dict hold the values they were passed with in every state, under
\* the default merge and under a hook that returns the object it was given,
\* and the worker's state shares no dict with the caller's, so that no
\* sequence of worker writes reaches it.
C12_CallerStateNeverMutated ==
    /\ heap[CallerState] = CallerTop
    /\ heap[CallerTop["doc"].ref] = CallerNested
    /\ run.started =>
         Reachable(heap, run.worker_state) \cap Reachable(heap, CallerState) = {}

C12_Witness ==
    /\ run.started
    /\ agent.merge_state = "default"
    /\ writes = MaxWrites
    /\ LET top == heap[run.worker_state]
       IN  /\ top["x"].val = JNum(<<Digit(MaxWrites)>>)
           /\ heap[top["doc"].ref]["n"].val = JNum(<<Digit(MaxWrites)>>)
           /\ "messages" \in DOMAIN top

(***************************************************************************)
(* Properties of the reads of flow.state (SpecRace).                       *)
(***************************************************************************)
ReadsFlowState ==
    {"METHOD_EXECUTION_STARTED", "METHOD_EXECUTION_FINISHED", "ACTION_EXECUTION_ARGS"}

\* C13: in every interleaving of worker and relay, each snapshot the relay
\* emits for an event that reads the flow state shows the flow state as it was
\* when the worker put that event, whatever the worker wrote in between.
C13_SnapshotShowsStateAtPut ==
    (handled.put_at # <<>> /\ handled.event.type \in ReadsFlowState) =>
      \A i \in 1..Len(handled.json_lines) :
         handled.json_lines[i].type = "AgentStateMessage" =>
           handled.json_lines[i].state.json["x"] = FlowState(handled.put_at[1])["x"]

(***************************************************************************)
(* Properties of the predictor's bookkeeping (SpecPredict, SpecMapper).    *)
(***************************************************************************)
\* C14: in every reachable execution state, whenever current_tool_call is none
\* argument_buffer is empty, for any order of action-start, action-args and
\* method-finished events.
C14_BufferEmptyWithoutCall ==
    execution_state.current_tool_call = None => execution_state.argument_buffer = <<>>

\* C14 amended: whenever current_tool_call is none, argument_buffer holds no
\* text of a tool call: it is empty after a method-finished event and until an
\* args event arrives with no call in flight, it then holds exactly the
\* fragments of those events, and no prediction is made from it.
C14_BufferHoldsNoCallTextWithoutCall ==
    execution_state.current_tool_call = None =>
      /\ execution_state.argument_buffer = Flatten(frags)
      /\ handled.event.type = "METHOD_EXECUTION_FINISHED" =>
           execution_state.argument_buffer = <<>>
      /\ ArgsHandled =>
           /\ NoPrediction
           /\ execution_state.predicted_state = handled.predicted_before

C14_Witness ==
    /\ execution_state.current_tool_call = None
    /\ execution_state.predict_state_configuration = CfgWhole
    /\ ArgsHandled
    /\ frags = <<FragText, FragBlank>>

\* the batch is one snapshot with the given flags
OneSnapshot(batch, active, running) ==
    /\ Len(batch) = 1
    /\ batch[1].type = "AgentStateMessage"
    /\ batch[1].active = active
    /\ batch[1].running = running

\* C15: handling a method-finished event clears predict_state_configuration,
\* predicted_state, current_tool_call and argument_buffer together and yields
\* one snapshot with active = false and running = true; from a state with the
\* configuration cleared, every event but a predict-state-config event leaves
\* it cleared, and an action-start or action-args event handled then yields
\* its pass-through event alone, with no predicted snapshot.
C15_MethodFinishedClearsPredictor ==
    [][/\ handled'.event.type = "METHOD_EXECUTION_FINISHED" =>
            /\ execution_state'.predict_state_configuration = <<>>
            /\ execution_state'.predicted_state = NoDict
            /\ execution_state'.current_tool_call = None
            /\ execution_state'.argument_buffer = <<>>
            /\ OneSnapshot(handled'.json_lines, FALSE, TRUE)
            /\ raised' = None
       /\ ( /\ execution_state.predict_state_configuration = <<>>
            /\ handled'.event.type # "PREDICT_STATE" ) =>
            /\ execution_state'.predict_state_configuration = <<>>
            /\ execution_state'.predicted_state = execution_state.predicted_state
                 \/ handled'.event.type = "METHOD_EXECUTION_FINISHED"
            /\ handled'.event.type \in {"ACTION_EXECUTION_START", "ACTION_EXECUTION_ARGS"} =>
                 /\ raised' = None
                 /\ Len(handled'.json_lines) = 1
                 /\ handled'.json_lines[1].type # "AgentStateMessage"]_vars

C15_Witness ==
    /\ handled.event.type = "METHOD_EXECUTION_FINISHED"
    /\ handled.predicted_before # NoDict
    /\ execution_state.predict_state_configuration = <<>>
    /\ execution_state.predicted_state = NoDict

(***************************************************************************)
(* Properties of the node name and the snapshots of a run (Spec).          *)
(***************************************************************************)
\* the snapshots of a batch
Snapshots(batch) == {i \in 1..Len(batch) : batch[i].type = "AgentStateMessage"}

\* one step of the run, for the node name: a method-started event sets it and
\* yields one active, running snapshot of the flow state without the keys in
\* excluded; only a method-started event changes it; every snapshot yielded,
\* the final one included, carries the current one
NodeNameStep(excluded) ==
    /\ (DriverHandled /\ handled'.event.type = "METHOD_EXECUTION_STARTED") =>
          /\ execution_state'.node_name = handled'.event.name
          /\ OneSnapshot(handled'.json_lines, TRUE, TRUE)
          /\ handled'.json_lines[1].state.json =
               [k \in DOMAIN flow_state \ excluded |-> flow_state[k]]
          /\ out' = Append(out, handled'.json_lines)
    /\ execution_state'.node_name # execution_state.node_name =>
          DriverHandled /\ handled'.event.type = "METHOD_EXECUTION_STARTED"
    /\ out' # out =>
          /\ Len(out') = Len(out) + 1
          /\ \A i \in Snapshots(out'[Len(out')]) :
                out'[Len(out')][i].nodeName = execution_state'.node_name

\* C16 as stated: the snapshot of a method-started event is the current flow
\* state minus "messages".
C16_NodeNameAndStateMinusMessages == [][NodeNameStep({"messages"})]_vars

\* C16 amended: the snapshot of a method-started event is the current flow
\* state minus "messages" and "id"; the rest as stated.
C16_NodeNameAndStateMinusMessagesAndId == [][NodeNameStep({"messages", "id"})]_vars

C16_Witness ==
    /\ pc = "done"
    /\ Len(out) = 3
    /\ execution_state.node_name = "a"
    /\ Consumed[1].type = "EMIT_STATE"
    /\ Consumed[2].type = "METHOD_EXECUTION_STARTED"
    /\ out[3][1].nodeName = "a"

\* C17: after any sequence of events, while a tool call is in flight,
\* argument_buffer is the concatenation, in arrival order, of the fragments that
\* arrived since the action-start of that call and of nothing else: an
\* action-start leaves the buffer empty, whatever it held.
C17_BufferIsCurrentCallFragments ==
    /\ execution_state.current_tool_call # None =>
         execution_state.argument_buffer = Flatten(frags)
    /\ handled.event.type = "ACTION_EXECUTION_START" =>
         /\ execution_state.argument_buffer = <<>>
         /\ execution_state.current_tool_call = handled.event.name

C17_Witness ==
    /\ ArgsHandled
    /\ execution_state.current_tool_call = "save"
    /\ handled.predicted_before # NoDict
    /\ frags = <<Frag1, Frag2>>

\* C18: an args event for a tool call whose name no entry of
\* predict_state_configuration refers to yields exactly its pass-through args
\* event and no snapshot, raises nothing and leaves predicted_state as it was,
\* while its fragment is appended to argument_buffer.
C18_UntrackedToolYieldsNoPrediction ==
    ( /\ ArgsHandled
      /\ execution_state.current_tool_call
           \notin ToolNames(execution_state.predict_state_configuration) ) =>
      /\ raised = None
      /\ handled.json_lines =
           <<action_execution_args(handled.event.id, handled.event.text)>>
      /\ execution_state.predicted_state = handled.predicted_before
      /\ frags # <<>>
      /\ execution_state.argument_buffer =
           Flatten(SubSeq(frags, 1, Len(frags) - 1)) \o handled.event.text

C18_Witness ==
    /\ ArgsHandled
    /\ execution_state.current_tool_call = "load"
    /\ execution_state.predict_state_configuration = CfgWhole
    /\ execution_state.predicted_state # NoDict
    /\ Len(frags) = 2

(***************************************************************************)
(* Properties of the snapshots while a prediction is held (SpecMapper).    *)
(***************************************************************************)
PredictionHeld ==
    /\ execution_state.current_tool_call # None
    /\ execution_state.predicted_state # NoDict

\* the snapshot state holds every predicted value, and the flow state's value
\* for every other key but "messages" and "id"
MergedOverFlowState(snapshot) ==
    LET predicted == execution_state.predicted_state
    IN  /\ DOMAIN snapshot = (DOMAIN flow_state \cup DOMAIN predicted) \ {"messages", "id"}
        /\ \A k \in DOMAIN predicted : snapshot[k] = predicted[k]
        /\ \A k \in DOMAIN snapshot \ DOMAIN predicted : snapshot[k] = flow_state[k]

SnapshotEvents == {"ACTION_EXECUTION_ARGS", "EMIT_STATE", "METHOD_EXECUTION_STARTED"}

\* C19 as stated: while a tool call is in flight and predicted_state is not
\* empty, every snapshot yielded for an action-args, emit-state or
\* method-started event holds the predicted values merged over the flow state.
C19_EverySnapshotMerged ==
    (PredictionHeld /\ handled.event.type \in SnapshotEvents) =>
      \A i \in Snapshots(handled.json_lines) :
         MergedOverFlowState(handled.json_lines[i].state.json)

\* C19 amended: then every snapshot yielded for an action-args event holds
\* the predicted values merged over the flow state; the snapshot of an
\* emit-state event is the emitted state, and that of a method-started event
\* the flow state, each without "messages" and "id" and without the
\* predicted values.
C19_PredictedSnapshotsMerged ==
    (PredictionHeld /\ handled.event.type \in SnapshotEvents) =>
      \A i \in Snapshots(handled.json_lines) :
         LET snapshot == handled.json_lines[i].state.json
         IN  CASE handled.event.type = "ACTION_EXECUTION_ARGS" ->
                    MergedOverFlowState(snapshot)
               [] handled.event.type = "EMIT_STATE" ->
                    snapshot = [k \in DOMAIN handled.event.dict \ {"messages", "id"} |->
                                  handled.event.dict[k]]
               [] handled.event.type = "METHOD_EXECUTION_STARTED" ->
                    snapshot = [k \in DOMAIN flow_state \ {"messages", "id"} |->
                                  flow_state[k]]

C19_Witness ==
    /\ PredictionHeld
    /\ ArgsHandled
    /\ PredictionEmitted
    /\ DOMAIN execution_state.predicted_state = {"summary", "doc"}

(***************************************************************************)
(* Properties of the relay's scheduling (Spec).                            *)
(***************************************************************************)
\* C20: after handling an event that is not terminal the relay takes one
\* scheduling turn before it goes back to the queue, and it changes nothing in
\* that turn, so that the batch of event k is out while event k+1 is still in
\* the queue; the turn is entered by handling an event and in no other way,
\* and after a terminal event the relay goes to the join without a turn.
C20_OneTurnBetweenEvents ==
    [][/\ DriverHandled =>
            /\ pc = "get"
            /\ raised' = None =>
                 pc' = IF handled'.event.type \in TerminalTypes THEN "join" ELSE "cede"
       /\ (pc' = "cede" /\ pc # "cede") => DriverHandled
       /\ (pc = "cede" /\ pc' # "cede") =>
            /\ pc' = "get"
            /\ ~DriverHandled
            /\ out' = out /\ execution_state' = execution_state /\ handled' = handled
       /\ (pc' = "get" /\ pc # "get") => pc = "cede"
       /\ (pc' = "join" /\ pc # "join") =>
            DriverHandled /\ handled'.event.type \in TerminalTypes
       /\ (pc = "join" /\ pc' # "join") => pc' = "done"]_vars

C20_Witness ==
    /\ pc = "cede"
    /\ Len(Consumed) = 2
    /\ Len(out) = 2
    /\ local_queue # <<>>


(***************************************************************************)
(* The keys of predicted_state (SpecPredict).                              *)
(***************************************************************************)
\* the keys of a configuration
ConfigKeys(config) == {config[i].key : i \in 1..Len(config)}

\* the keys of the entries of the configuration that name the tool
KeysForTool(config, tool) ==
    {config[i].key : i \in {j \in 1..Len(config) : config[j].tool_name = tool}}

\* C22: in every reachable execution state each key of predicted_state is a
\* key of the predict_state_configuration stored at that time, so that nothing
\* predicted under a configuration since replaced stays behind.
C22_PredictedKeysInConfiguration ==
    DOMAIN execution_state.predicted_state
      \subseteq ConfigKeys(execution_state.predict_state_configuration)

\* C22 as the code has it: a key enters predicted_state, or takes a new value,
\* only as a key of an entry of the configuration stored at that time that names
\* the tool call in flight; a method-finished event empties predicted_state and
\* no other event removes a key from it; a predict-state-config event and an
\* action-start event leave predicted_state exactly as it was, whatever
\* configuration its keys came from.
C22_PredictedKeysFromConfigurationAtStore ==
    [][LET before == execution_state.predicted_state
           after  == execution_state'.predicted_state
       IN  /\ handled'.event.type = "METHOD_EXECUTION_FINISHED" => after = NoDict
           /\ handled'.event.type # "METHOD_EXECUTION_FINISHED" =>
                 /\ DOMAIN before \subseteq DOMAIN after
                 /\ \A k \in DOMAIN after :
                       (k \notin DOMAIN before \/ after[k] # before[k]) =>
                         k \in KeysForTool(execution_state'.predict_state_configuration,
                                           execution_state'.current_tool_call)
           /\ handled'.event.type \in {"PREDICT_STATE", "ACTION_EXECUTION_START"} =>
                 after = before]_vars

\* a snapshot is emitted that carries, beside the value just predicted, one
\* predicted under a configuration replaced since
C22_Witness ==
    /\ ArgsHandled
    /\ PredictionEmitted
    /\ execution_state.predict_state_configuration = CfgWhole
    /\ "summary" \in DOMAIN execution_state.predicted_state
    /\ "summary" \in DOMAIN handled.json_lines[2].state.json

(***************************************************************************)
(* Termination of the run (SpecLive).                                      *)
(***************************************************************************)
\* every event the worker has put is of a type of the mapping table
KnownOnly == \A i \in 1..Len(produced) : produced[i].type \in KnownTypes

\* the worker has completed, having put events of known types only, the last
\* of them flow-finished or flow-error
TerminalDelivered ==
    /\ worker = "done"
    /\ KnownOnly
    /\ produced # <<>>
    /\ produced[Len(produced)].type \in TerminalTypes

\* the worker has completed, having put events of known types only and never
\* a terminal one
NothingTerminalDelivered ==
    /\ worker = "done"
    /\ KnownOnly
    /\ \A i \in 1..Len(produced) : produced[i].type \notin TerminalTypes

\* execute_flow has yielded the final snapshot and ended
RunEnded == pc = "done" /\ out # <<>> /\ IsFinalSnapshot(out[Len(out)])

\* the driver waits in local_queue.get() on an empty queue
BlockedOnGet == pc = "get" /\ local_queue = <<>>

\* C21: for a worker that puts events of known types only: once it has
\* completed with flow-finished or flow-error as its last event, the driver
\* eventually yields the final snapshot and ends; once it has completed without
\* ever putting a terminal event, the driver comes to wait on the empty queue
\* and stays there forever, never yielding the final snapshot.
C21_EndsIffTerminalDelivered ==
    /\ TerminalDelivered ~> RunEnded
    /\ NothingTerminalDelivered ~> [](BlockedOnGet /\ ~RunEnded)

\* What holds of the code, whatever the types of the events: after a terminal
\* event put last the run ends or a handler has raised, and with no terminal
\* event the driver waits forever or a handler has raised, the final snapshot
\* never yielded.
EndsOrRaisesIffTerminalDelivered ==
    /\ (worker = "done" /\ produced # <<>>
          /\ produced[Len(produced)].type \in TerminalTypes)
         ~> (RunEnded \/ pc = "raised")
    /\ (worker = "done" /\ \A i \in 1..Len(produced) : produced[i].type \notin TerminalTypes)
         ~> []((BlockedOnGet \/ pc = "raised") /\ ~RunEnded)

====
